---- MODULE Spec2Model ----
(***************************************************************************)
(* Model of the collect_mac crate (src/src/lib.rs): the rules of the       *)
(* collect! macro, rewriting a token sequence until the @collect block or  *)
(* the empty block is reached, the statements of the expanded block, and   *)
(* the SizeHintIter iterator the block hands to the first Extend call.     *)
(* The containers are the environment of the macro: the Vec model is the   *)
(* simplified Extend implementation of the crate documentation.            *)
(***************************************************************************)
EXTENDS Integers, Sequences, FiniteSets, TLC

VARIABLES
    toks,        \* tokens of the macro invocation still to be expanded
    rules,       \* the rules of the macro applied so far, in order
    pc,          \* "expand", then the position in the expanded block
    srcEntries,  \* the entries the programmer wrote (never changes)
    srcForm,     \* the form they were written in, and the trailing commas
    kind,        \* which Extend implementation the collection type has
    col,         \* the local `$col` of the block
    es,          \* the expressions bound to $v0 and $vs by @collect
    num,         \* the constant NUM_ELEMS of the block
    idx,         \* the repetition of `$( extend(Some($vs)) )*` to run next
    caps,        \* what the callback `$cb` has seen: the capacity at each step
    calls,       \* the Extend::extend calls made so far
    hintsMade,   \* number of SizeHintIter values constructed
    hint,        \* the SizeHintIter (<<>> before it exists)
    result,      \* <<>> or <<c>>: the value the macro invocation evaluates to
    op,          \* last method called directly on the iterator
    ret,         \* what the last direct `next` returned (<<>> is None)
    est,         \* what the last direct `size_hint` returned
    ncalls       \* number of direct calls on the iterator

vars == <<toks, rules, pc, srcEntries, srcForm, kind, col, es, num, idx, caps, calls,
          hintsMade, hint, result, op, ret, est, ncalls>>

(***************************************************************************)
(* Bounds.                                                                 *)
(***************************************************************************)
MaxN == 3
MaxVal == 2
MaxTrailing == 1
MaxSlack == 1
MaxCalls == 4

Vals == 1..MaxVal

\* usize arithmetic, at a reduced width
UsizeMod == 2^16

Max(a, b) == IF a >= b THEN a ELSE b

(***************************************************************************)
(* Tokens.  An expression token carries its value: <<x>> for a scalar,     *)
(* <<k, v>> for the tuple (k, v).  A type token carries <<1>> for a type   *)
(* the programmer wrote and <<0>> for `_`.                                 *)
(***************************************************************************)
Tok(t, v) == [t |-> t, v |-> v]
AS == Tok("as", <<>>)
COLON == Tok("colon", <<>>)
COMMA == Tok("comma", <<>>)
ARROW == Tok("arrow", <<>>)
COLLECT == Tok("collect", <<>>)
TyInfer == Tok("ty", <<0>>)
TyGiven == Tok("ty", <<1>>)
Expr(v) == Tok("expr", v)

IsExpr(tok) == tok.t = "expr"
IsTy(tok) == tok.t = "ty"

RECURSIVE Commas(_)
Commas(n) == IF n = 0 THEN <<>> ELSE <<COMMA>> \o Commas(n - 1)

\* `$($x),*` in a transcriber: the items separated by commas
RECURSIVE SepByComma(_)
SepByComma(items) ==
    IF Len(items) = 0 THEN <<>>
    ELSE IF Len(items) = 1 THEN items[1]
    ELSE items[1] \o <<COMMA>> \o SepByComma(Tail(items))

\* `$(,)*` at the end of a matcher: the longest prefix not ending in a comma
RECURSIVE StripCommas(_)
StripCommas(s) ==
    IF Len(s) > 0 /\ s[Len(s)] = COMMA
    THEN StripCommas(SubSeq(s, 1, Len(s) - 1))
    ELSE s

\* `$($vs:expr),*` against the whole of s (s = <<>> matches with no binding)
IsExprList(s) ==
    \/ Len(s) = 0
    \/ /\ Len(s) % 2 = 1
       /\ \A i \in 1..Len(s) : IF i % 2 = 1 THEN IsExpr(s[i]) ELSE s[i] = COMMA

\* variant: the last expression of the list is not bound
ExprListOfShort(s) == [i \in 1..(Len(s) \div 2) |-> s[2 * i - 1]]

ExprListOf(s) == [i \in 1..((Len(s) + 1) \div 2) |-> s[2 * i - 1]]

\* `$($ks:expr => $vs:expr),+` against the whole of s
IsPairList(s) ==
    /\ Len(s) % 4 = 3
    /\ \A i \in 1..Len(s) :
         CASE i % 4 = 1 -> IsExpr(s[i])
           [] i % 4 = 2 -> s[i] = ARROW
           [] i % 4 = 3 -> IsExpr(s[i])
           [] OTHER -> s[i] = COMMA

PairKeys(s) == [i \in 1..((Len(s) + 1) \div 4) |-> s[4 * i - 3]]
PairVals(s) == [i \in 1..((Len(s) + 1) \div 4) |-> s[4 * i - 1]]

(***************************************************************************)
(* The matchers of the rules of collect!, in the order of the source.      *)
(* macro_rules takes the first rule whose matcher accepts the input.       *)
(***************************************************************************)
\* (@collect ty: $col_ty:ty, es: [$v0:expr, $($vs:expr),* $(,)*], cb: ...)
MatchCollect(s) ==
    /\ Len(s) >= 4
    /\ s[1] = COLLECT /\ IsTy(s[2]) /\ IsExpr(s[3]) /\ s[4] = COMMA
    /\ IsExprList(StripCommas(SubSeq(s, 5, Len(s))))

\* []
MatchEmpty(s) == s = <<>>

\* [as $col_ty:ty]
MatchAsTy(s) == Len(s) = 2 /\ s[1] = AS /\ IsTy(s[2])

\* [as $col_ty:ty:]
MatchAsTyColon(s) == Len(s) = 3 /\ s[1] = AS /\ IsTy(s[2]) /\ s[3] = COLON

\* [as $col_ty:ty: $v0:expr]
MatchSeqAs1(s) ==
    Len(s) = 4 /\ s[1] = AS /\ IsTy(s[2]) /\ s[3] = COLON /\ IsExpr(s[4])

\* [as $col_ty:ty: $v0:expr, $($vs:expr),* $(,)*]
MatchSeqAs(s) ==
    /\ Len(s) >= 5
    /\ s[1] = AS /\ IsTy(s[2]) /\ s[3] = COLON /\ IsExpr(s[4]) /\ s[5] = COMMA
    /\ IsExprList(StripCommas(SubSeq(s, 6, Len(s))))

\* [as $col_ty:ty: $($ks:expr => $vs:expr),+ $(,)*]
MatchMapAs(s) ==
    /\ Len(s) >= 6
    /\ s[1] = AS /\ IsTy(s[2]) /\ s[3] = COLON
    /\ IsPairList(StripCommas(SubSeq(s, 4, Len(s))))

\* [$($vs:expr),+ $(,)*]
MatchSeq(s) == Len(StripCommas(s)) >= 1 /\ IsExprList(StripCommas(s))

\* [$($ks:expr => $vs:expr),+ $(,)*]
MatchMap(s) == IsPairList(StripCommas(s))

Matchers(s) ==
    << MatchCollect(s), MatchEmpty(s), MatchAsTy(s), MatchAsTyColon(s),
       MatchSeqAs1(s), MatchSeqAs(s), MatchMapAs(s), MatchSeq(s), MatchMap(s) >>

\* the rule macro_rules selects: the first one that matches (0: none)
FirstRule(s) ==
    LET m == Matchers(s)
        hits == {i \in 1..Len(m) : m[i]}
    IN IF hits = {} THEN 0 ELSE CHOOSE i \in hits : \A j \in hits : i <= j

(***************************************************************************)
(* The transcribers.                                                       *)
(***************************************************************************)
Singles(s) == [i \in 1..Len(s) |-> <<s[i]>>]

\* variant: the `as` keyword is missing from the transcriber
ExpandEmptyNoAs(s) == <<TyInfer, COLON>>

\* collect![as _:]
ExpandEmpty(s) == <<AS, TyInfer, COLON>>

\* collect![as $col_ty:]
ExpandAsTy(s) == <<AS, s[2], COLON>>

\* collect![as $col_ty: $v0,]
ExpandSeqAs1(s) == <<AS, s[2], COLON, s[4], COMMA>>

\* variant: the transcriber passes on `es: [$v0,]` only
ExpandSeqAsFirstOnly(s) == <<COLLECT, s[2], s[4], COMMA>>

\* collect!(@collect ty: $col_ty, es: [$v0, $($vs),*], cb: (col) (),)
ExpandSeqAs(s) ==
    LET vs == ExprListOf(StripCommas(SubSeq(s, 6, Len(s))))
    IN <<COLLECT, s[2], s[4], COMMA>> \o SepByComma(Singles(vs))

\* variant: the tuple is written ($vs, $ks)
TupleExprSwapped(k, v) == Expr(v.v \o k.v)

\* ($ks, $vs): one expression, the tuple
TupleExpr(k, v) == Expr(k.v \o v.v)

\* collect![as $col_ty: $(($ks, $vs)),+]
ExpandMapAs(s) ==
    LET body == StripCommas(SubSeq(s, 4, Len(s)))
        ks == PairKeys(body)
        vs == PairVals(body)
    IN <<AS, s[2], COLON>>
         \o SepByComma([i \in 1..Len(ks) |-> <<TupleExpr(ks[i], vs[i])>>])

\* collect![as _: $($vs),+]
ExpandSeq(s) ==
    <<AS, TyInfer, COLON>> \o SepByComma(Singles(ExprListOf(StripCommas(s))))

\* collect![as _: $($ks => $vs),+]
ExpandMap(s) ==
    LET body == StripCommas(s)
        ks == PairKeys(body)
        vs == PairVals(body)
    IN <<AS, TyInfer, COLON>>
         \o SepByComma([i \in 1..Len(ks) |-> <<ks[i], ARROW, vs[i]>>])

\* (@replace_expr $_tt:tt $sub:expr) => { $sub }
ReplaceExpr(tt, sub) == sub

\* variant: the token trees inside each group are counted
RECURSIVE CountTtsInner(_)
CountTtsInner(tts) ==
    IF Len(tts) = 0 THEN 0
    ELSE Len(tts[1][1].v) + CountTtsInner(Tail(tts))

\* variant: ($v0) is left out of the count
CountTtsRest(tts) == Max(Len(tts) - 1, 0)

\* (@count_tts $($tts:tt)*) => { 0usize $(+ collect!(@replace_expr $tts 1usize))* }
RECURSIVE CountTts(_)
CountTts(tts) ==
    IF Len(tts) = 0 THEN 0
    ELSE (ReplaceExpr(tts[Len(tts)], 1)
            + CountTts(SubSeq(tts, 1, Len(tts) - 1))) % UsizeMod

\* the expressions @collect binds: <<$v0>> \o $vs
CollectExprs(s) ==
    <<s[3]>> \o ExprListOf(StripCommas(SubSeq(s, 5, Len(s))))

\* ($v0) $(($vs))*: each expression wrapped in parentheses is one token tree
ParenGroups(exprs) == [i \in 1..Len(exprs) |-> <<exprs[i]>>]

\* const NUM_ELEMS: usize = collect!(@count_tts ($v0) $(($vs))*);
NumElems(s) == CountTts(ParenGroups(CollectExprs(s)))

(***************************************************************************)
(* Iterators.  item is <<>> for None and <<v>> for Some(v).                *)
(***************************************************************************)
\* variant: the iterator reports the one element it holds
MkSizeHintIterOne(v0, n) == [kind |-> "hint", item |-> <<v0>>, count |-> 1]

\* SizeHintIter { item: Some($v0), count: NUM_ELEMS }
MkSizeHintIter(v0, n) == [kind |-> "hint", item |-> <<v0>>, count |-> n]

\* Some($vs).into_iter(): the iterator over an Option
MkOptionIter(v) == [kind |-> "option", item |-> <<v>>, count |-> 0]

\* variant: next does not decrement count
SizeHintIterNextKeepCount(it) ==
    IF it.item # <<>>
    THEN [ret |-> it.item, it |-> [it EXCEPT !.item = <<>>]]
    ELSE [ret |-> <<>>, it |-> it]

\* variant: next reads the item without taking it
SizeHintIterNextPeek(it) ==
    IF it.item # <<>>
    THEN [ret |-> it.item,
          it |-> [it EXCEPT !.count = (it.count - 1) % UsizeMod]]
    ELSE [ret |-> <<>>, it |-> it]

\* SizeHintIter::next: the value returned and the iterator afterwards
SizeHintIterNext(it) ==
    IF it.item # <<>>
    THEN [ret |-> it.item,
          it |-> [it EXCEPT !.item = <<>>,
                            !.count = (it.count - 1) % UsizeMod]]
    ELSE [ret |-> <<>>, it |-> it]

\* variant: size_hint reports the number of elements still held
SizeHintIterSizeHintHeld(it) == <<Len(it.item), Len(it.item)>>

\* SizeHintIter::size_hint: (lower, Some(upper))
SizeHintIterSizeHint(it) == <<it.count, it.count>>

\* option::IntoIter: yields the value once, and reports what is left
OptionIterNext(it) == [ret |-> it.item, it |-> [it EXCEPT !.item = <<>>]]
OptionIterSizeHint(it) == <<Len(it.item), Len(it.item)>>

IterNext(it) ==
    IF it.kind = "hint" THEN SizeHintIterNext(it) ELSE OptionIterNext(it)
IterSizeHint(it) ==
    IF it.kind = "hint" THEN SizeHintIterSizeHint(it) ELSE OptionIterSizeHint(it)

(***************************************************************************)
(* Collections.  elems: the contents; cap: the reported capacity; allocs:  *)
(* how many times the storage was (re)allocated.                           *)
(***************************************************************************)
\* ::std::default::Default::default()
DefaultCol == [elems |-> <<>>, cap |-> 0, allocs |-> 0]

SatAdd(a, b) == IF a + b >= UsizeMod THEN UsizeMod - 1 ELSE a + b

\* self.reserve(additional): room for at least `additional` more elements;
\* the allocator may give `slack` more than was asked for
Reserve(c, additional, slack) ==
    IF c.cap - Len(c.elems) >= additional THEN c
    ELSE [c EXCEPT !.cap = Len(c.elems) + additional + slack,
                   !.allocs = @ + 1]

\* self.push(element): grows the storage when it is full
Push(c, e) ==
    LET c1 == IF Len(c.elems) = c.cap
              THEN [c EXCEPT !.cap = Max(2 * c.cap, Len(c.elems) + 1),
                             !.allocs = @ + 1]
              ELSE c
    IN [c1 EXCEPT !.elems = Append(@, e)]

\* The Extend implementation of the crate documentation, with `extra` = 1:
\*   while let Some(element) = iterator.next() {
\*       if self.len() == self.capacity() {
\*           let (lower, _) = iterator.size_hint();
\*           self.reserve(lower.saturating_add(extra)); }
\*       self.push(element); }
\* seen collects the lower bounds the collection has read.
RECURSIVE ExtendDrawFirst(_, _, _, _, _)
ExtendDrawFirst(c, it, slack, extra, seen) ==
    LET r == IterNext(it)
    IN IF r.ret = <<>> THEN [col |-> c, it |-> r.it, seen |-> seen]
       ELSE LET full == Len(c.elems) = c.cap
                lower == IterSizeHint(r.it)[1]
                c1 == IF full THEN Reserve(c, SatAdd(lower, extra), slack)
                      ELSE c
            IN ExtendDrawFirst(Push(c1, r.ret[1]), r.it, slack, extra,
                               IF full THEN Append(seen, lower) ELSE seen)

ExtendVec(c, it, slack) == ExtendDrawFirst(c, it, slack, 1, <<>>)

\* a collection that draws an element, then reserves the lower bound alone
ExtendPost(c, it, slack) == ExtendDrawFirst(c, it, slack, 0, <<>>)

RECURSIVE PushAll(_, _, _)
PushAll(c, it, seen) ==
    LET r == IterNext(it)
    IN IF r.ret = <<>> THEN [col |-> c, it |-> r.it, seen |-> seen]
       ELSE PushAll(Push(c, r.ret[1]), r.it, seen)

\* a collection that reserves the lower bound before it draws any element
ExtendPre(c, it, slack) ==
    LET lower == IterSizeHint(it)[1]
    IN PushAll(Reserve(c, lower, slack), it, <<lower>>)

\* map.insert(k, v): the value of an existing key is replaced
MapInsert(elems, kv) ==
    IF \E i \in 1..Len(elems) : elems[i][1] = kv[1]
    THEN [i \in 1..Len(elems) |->
            IF elems[i][1] = kv[1] THEN kv ELSE elems[i]]
    ELSE Append(elems, kv)

\* a map: for (k, v) in iterator { self.insert(k, v) }
RECURSIVE ExtendMap(_, _)
ExtendMap(c, it) ==
    LET r == IterNext(it)
    IN IF r.ret = <<>> THEN [col |-> c, it |-> r.it, seen |-> <<>>]
       ELSE ExtendMap([c EXCEPT !.elems = MapInsert(@, r.ret[1])], r.it)

\* ::std::iter::Extend::extend(&mut $col, iterator)
Extend(k, c, it, slack) ==
    CASE k = "vec" -> ExtendVec(c, it, slack)
      [] k = "post" -> ExtendPost(c, it, slack)
      [] k = "pre" -> ExtendPre(c, it, slack)
      [] OTHER -> ExtendMap(c, it)

(***************************************************************************)
(* The invocations a program can contain.                                  *)
(***************************************************************************)
SeqsUpTo(S, n) == UNION {[1..m -> S] : m \in 1..n}

\* the entries of a sequence literal, and of a key => value literal
ScalarEntries == SeqsUpTo({<<x>> : x \in Vals}, MaxN)
PairEntries == SeqsUpTo({<<k, v>> : k \in Vals, v \in Vals}, MaxN)

ExprToks(entries) == [i \in 1..Len(entries) |-> <<Expr(entries[i])>>]
ArrowToks(entries) ==
    [i \in 1..Len(entries) |->
        <<Expr(<<entries[i][1]>>), ARROW, Expr(<<entries[i][2]>>)>>]

EmptyForms == {"empty", "asTy", "asTyColon"}
SeqForms == {"seq", "seqAs", "internal"}
MapForms == {"map", "mapAs"}

\* the tokens between the brackets of collect![...]
Render(form, entries, trailing) ==
    CASE form = "empty" -> <<>>
      [] form = "asTy" -> <<AS, TyGiven>>
      [] form = "asTyColon" -> <<AS, TyGiven, COLON>>
      [] form = "seq" -> SepByComma(ExprToks(entries)) \o Commas(trailing)
      [] form = "seqAs" ->
            <<AS, TyGiven, COLON>> \o SepByComma(ExprToks(entries))
                \o Commas(trailing)
      [] form = "internal" ->
            <<COLLECT, TyGiven, Expr(entries[1]), COMMA>>
                \o SepByComma(ExprToks(Tail(entries))) \o Commas(trailing)
      [] form = "map" -> SepByComma(ArrowToks(entries)) \o Commas(trailing)
      [] OTHER ->
            <<AS, TyGiven, COLON>> \o SepByComma(ArrowToks(entries))
                \o Commas(trailing)

Kinds == {"vec", "pre", "post", "map"}

\* the programs: a form, its entries, and a collection type that accepts them
Programs ==
    {<<f, <<>>, 0, k>> : f \in EmptyForms, k \in Kinds}
    \cup {<<f, e, t, k>> : f \in SeqForms, e \in ScalarEntries,
                           t \in 0..MaxTrailing, k \in {"vec", "pre", "post"}}
    \cup {<<f, e, t, k>> : f \in MapForms, e \in PairEntries,
                           t \in 0..MaxTrailing, k \in {"map", "vec"}}

Init ==
    \E p \in Programs :
        /\ toks = Render(p[1], p[2], p[3])
        /\ rules = <<>>
        /\ srcEntries = p[2]
        /\ srcForm = <<p[1], p[3]>>
        /\ kind = p[4]
        /\ pc = "expand"
        /\ col = DefaultCol
        /\ es = <<>>
        /\ num = 0
        /\ idx = 0
        /\ caps = <<>>
        /\ calls = <<>>
        /\ hintsMade = 0
        /\ hint = <<>>
        /\ result = <<>>
        /\ op = "none"
        /\ ret = <<>>
        /\ est = <<>>
        /\ ncalls = 0

iterVars == <<op, ret, est, ncalls>>
runVars == <<col, es, num, idx, caps, calls, hintsMade, hint, result>>

(***************************************************************************)
(* Expansion: one action per rule of the macro.                            *)
(***************************************************************************)
\* [] => { collect![as _:] }
RuleEmpty ==
    /\ pc = "expand"
    /\ FirstRule(toks) = 2
    /\ toks' = ExpandEmpty(toks)
    /\ rules' = Append(rules, 2)
    /\ UNCHANGED <<pc, srcEntries, srcForm, kind, runVars, iterVars>>

\* [as $col_ty:ty] => { collect![as $col_ty:] }
RuleAsTy ==
    /\ pc = "expand"
    /\ FirstRule(toks) = 3
    /\ toks' = ExpandAsTy(toks)
    /\ rules' = Append(rules, 3)
    /\ UNCHANGED <<pc, srcEntries, srcForm, kind, runVars, iterVars>>

\* [as $col_ty:ty: $v0:expr] => { collect![as $col_ty: $v0,] }
RuleSeqAs1 ==
    /\ pc = "expand"
    /\ FirstRule(toks) = 5
    /\ toks' = ExpandSeqAs1(toks)
    /\ rules' = Append(rules, 5)
    /\ UNCHANGED <<pc, srcEntries, srcForm, kind, runVars, iterVars>>

\* [as $col_ty:ty: $v0:expr, $($vs:expr),* $(,)*] => { collect!(@collect ..) }
RuleSeqAs ==
    /\ pc = "expand"
    /\ FirstRule(toks) = 6
    /\ toks' = ExpandSeqAs(toks)
    /\ rules' = Append(rules, 6)
    /\ UNCHANGED <<pc, srcEntries, srcForm, kind, runVars, iterVars>>

\* [as $col_ty:ty: $($ks:expr => $vs:expr),+ $(,)*]
RuleMapAs ==
    /\ pc = "expand"
    /\ FirstRule(toks) = 7
    /\ toks' = ExpandMapAs(toks)
    /\ rules' = Append(rules, 7)
    /\ UNCHANGED <<pc, srcEntries, srcForm, kind, runVars, iterVars>>

\* [$($vs:expr),+ $(,)*] => { collect![as _: $($vs),+] }
RuleSeq ==
    /\ pc = "expand"
    /\ FirstRule(toks) = 8
    /\ toks' = ExpandSeq(toks)
    /\ rules' = Append(rules, 8)
    /\ UNCHANGED <<pc, srcEntries, srcForm, kind, runVars, iterVars>>

\* [$($ks:expr => $vs:expr),+ $(,)*] => { collect![as _: $($ks => $vs),+] }
RuleMap ==
    /\ pc = "expand"
    /\ FirstRule(toks) = 9
    /\ toks' = ExpandMap(toks)
    /\ rules' = Append(rules, 9)
    /\ UNCHANGED <<pc, srcEntries, srcForm, kind, runVars, iterVars>>

\* [as $col_ty:ty:] => {{ let col: $col_ty = Default::default(); col }}
RuleAsTyColon ==
    /\ pc = "expand"
    /\ FirstRule(toks) = 4
    /\ rules' = Append(rules, 4)
    /\ col' = DefaultCol
    /\ result' = <<DefaultCol>>
    /\ pc' = "done"
    /\ UNCHANGED <<toks, srcEntries, srcForm, kind, es, num, idx, caps, calls,
                   hintsMade, hint, iterVars>>

\* @collect: the bindings of the block and its constant NUM_ELEMS
RuleCollect ==
    /\ pc = "expand"
    /\ FirstRule(toks) = 1
    /\ rules' = Append(rules, 1)
    /\ es' = CollectExprs(toks)
    /\ num' = NumElems(toks)
    /\ pc' = "default"
    /\ UNCHANGED <<toks, srcEntries, srcForm, kind, col, idx, caps, calls,
                   hintsMade, hint, result, iterVars>>

(***************************************************************************)
(* The statements of the @collect block.                                   *)
(***************************************************************************)
\* let mut $col: $col_ty = Default::default(); $cb;
StmtDefault ==
    /\ pc = "default"
    /\ col' = DefaultCol
    /\ caps' = Append(caps, DefaultCol.cap)
    /\ pc' = "first"
    /\ UNCHANGED <<toks, rules, srcEntries, srcForm, kind, es, num, idx, calls,
                   hintsMade, hint, result, iterVars>>

CallRecord(it, r) ==
    [iter |-> it.kind, item |-> it.item[1], hintAt |-> IterSizeHint(it)[1],
     seen |-> r.seen]

\* let hint = SizeHintIter {..}; Extend::extend(&mut $col, hint); $cb;
StmtFirst ==
    /\ pc = "first"
    /\ \E slack \in 0..MaxSlack :
         LET h == MkSizeHintIter(es[1].v, num)
             r == Extend(kind, col, h, slack)
         IN /\ col' = r.col
            /\ hint' = <<r.it>>
            /\ calls' = Append(calls, CallRecord(h, r))
            /\ caps' = Append(caps, r.col.cap)
    /\ hintsMade' = hintsMade + 1
    /\ idx' = 2
    /\ pc' = "rest"
    /\ UNCHANGED <<toks, rules, srcEntries, srcForm, kind, es, num, result, iterVars>>

\* $( Extend::extend(&mut $col, Some($vs).into_iter()); $cb; )*
StmtRest ==
    /\ pc = "rest"
    /\ idx <= Len(es)
    /\ \E slack \in 0..MaxSlack :
         LET o == MkOptionIter(es[idx].v)
             r == Extend(kind, col, o, slack)
         IN /\ col' = r.col
            /\ calls' = Append(calls, CallRecord(o, r))
            /\ caps' = Append(caps, r.col.cap)
    /\ idx' = idx + 1
    /\ UNCHANGED <<toks, rules, pc, srcEntries, srcForm, kind, es, num, hintsMade,
                   hint, result, iterVars>>

\* $col: the value of the block
StmtReturn ==
    /\ pc = "rest"
    /\ idx > Len(es)
    /\ result' = <<col>>
    /\ pc' = "done"
    /\ UNCHANGED <<toks, rules, srcEntries, srcForm, kind, col, es, num, idx, caps,
                   calls, hintsMade, hint, iterVars>>

Next ==
    \/ RuleEmpty \/ RuleAsTy \/ RuleAsTyColon \/ RuleSeqAs1 \/ RuleSeqAs
    \/ RuleMapAs \/ RuleSeq \/ RuleMap \/ RuleCollect
    \/ StmtDefault \/ StmtFirst \/ StmtRest \/ StmtReturn

Spec == Init /\ [][Next]_vars

(***************************************************************************)
(* The iterator on its own: a SizeHintIter as the block creates it, driven *)
(* by a consumer that calls next and size_hint in any order.               *)
(***************************************************************************)
InitIter ==
    \E e \in ScalarEntries \cup PairEntries :
        /\ srcEntries = e
        /\ srcForm = <<"iter", 0>>
        /\ es = [i \in 1..Len(e) |-> Expr(e[i])]
        /\ num = CountTts(ParenGroups([i \in 1..Len(e) |-> Expr(e[i])]))
        /\ hint = <<MkSizeHintIter(e[1],
                      CountTts(ParenGroups([i \in 1..Len(e) |-> Expr(e[i])])))>>
        /\ hintsMade = 1
        /\ toks = <<>>
        /\ rules = <<>>
        /\ kind = "vec"
        /\ pc = "iter"
        /\ col = DefaultCol
        /\ idx = 0
        /\ caps = <<>>
        /\ calls = <<>>
        /\ result = <<>>
        /\ op = "none"
        /\ ret = <<>>
        /\ est = <<>>
        /\ ncalls = 0

\* the consumer calls hint.next()
CallNext ==
    /\ pc = "iter"
    /\ ncalls < MaxCalls
    /\ LET r == SizeHintIterNext(hint[1])
       IN /\ hint' = <<r.it>>
          /\ ret' = r.ret
    /\ op' = "next"
    /\ ncalls' = ncalls + 1
    /\ UNCHANGED <<toks, rules, pc, srcEntries, srcForm, kind, col, es, num, idx, caps,
                   calls, hintsMade, result, est>>

\* the consumer calls hint.size_hint()
CallSizeHint ==
    /\ pc = "iter"
    /\ ncalls < MaxCalls
    /\ est' = SizeHintIterSizeHint(hint[1])
    /\ op' = "size_hint"
    /\ ncalls' = ncalls + 1
    /\ UNCHANGED <<toks, rules, pc, srcEntries, srcForm, kind, col, es, num, idx, caps,
                   calls, hintsMade, hint, result, ret>>

NextIter == CallNext \/ CallSizeHint

SpecIter == InitIter /\ [][NextIter]_vars

(***************************************************************************)
(* Properties.                                                             *)
(***************************************************************************)
N == Len(srcEntries)
Built == pc = "done" /\ N >= 1
SeqKinds == {"vec", "pre", "post"}

\* the entries inserted one after the other into an empty map
RECURSIVE InsertedInOrder(_)
InsertedInOrder(entries) ==
    IF Len(entries) = 0 THEN <<>>
    ELSE MapInsert(InsertedInOrder(SubSeq(entries, 1, Len(entries) - 1)),
                   entries[Len(entries)])

\* C1: the collection the macro returns holds the entries of the literal,
\* applied in source order to an empty collection by the collection's own
\* insertion; a sequence collection holds exactly the literal, in order.
C1_RoundTrip ==
    pc = "done" =>
        /\ Len(result) = 1
        /\ kind \in SeqKinds => result[1].elems = srcEntries
        /\ kind = "map" => result[1].elems = InsertedInOrder(srcEntries)

C1_Witness ==
    /\ pc = "done" /\ kind = "vec" /\ N = 3
    /\ srcEntries[1] # srcEntries[2]
    /\ result[1].elems = srcEntries

\* C2: with the Vec model of the documentation, the capacities seen by the
\* callback are the default capacity before the first extend call and the
\* final capacity after the first and after every later extend call: the
\* capacity changes once, during the first call.
C2_CapacitySequence ==
    (kind = "vec" /\ Len(caps) >= 1) =>
        /\ caps[1] = 0
        /\ \A i \in 2..Len(caps) : caps[i] = caps[2] /\ caps[i] # caps[1]
        /\ col.allocs <= 1
        /\ pc = "done" =>
             /\ Len(caps) = N + 1
             /\ caps[Len(caps)] = result[1].cap
             /\ result[1].cap >= N
             /\ result[1].allocs = 1

C2_Witness ==
    /\ pc = "done" /\ kind = "vec" /\ N = 3
    /\ Len(caps) = 4 /\ caps[1] = 0 /\ caps[2] >= 3 /\ caps[4] = caps[2]

\* C3 as claimed: every collection that reserves at least the lower bound it
\* reads makes exactly one allocation, whether it reads the bound before the
\* first element is drawn or after.
C3_Claimed ==
    (Built /\ kind \in SeqKinds) => result[1].allocs = 1

\* C3 as amended: one allocation when the bound is read before any element is
\* drawn (the collection reads N), and when the first element is drawn first
\* (the collection reads N - 1) and one more than the bound is reserved.
C3_SingleAllocation ==
    (Built /\ kind \in SeqKinds) =>
        /\ kind = "pre" => result[1].allocs = 1 /\ calls[1].seen = <<N>>
        /\ kind = "vec" => result[1].allocs = 1 /\ calls[1].seen = <<N - 1>>
        /\ kind = "post" => calls[1].seen = <<N - 1>>

C3_Witness ==
    /\ pc = "done" /\ kind = "pre" /\ N = 3
    /\ result[1].allocs = 1 /\ result[1].cap >= 3
    /\ calls[1].seen = <<3>>

\* C4: every empty form evaluates to the default collection; no SizeHintIter
\* is created and extend is never called.
C4_EmptyForms ==
    N = 0 =>
        /\ hintsMade = 0
        /\ calls = <<>>
        /\ hint = <<>>
        /\ pc = "expand" => FirstRule(toks) \in {2, 3, 4}
        /\ pc # "expand" =>
             /\ pc = "done"
             /\ result = <<[elems |-> <<>>, cap |-> 0, allocs |-> 0]>>

C4_Witness ==
    /\ pc = "done" /\ srcForm[1] = "empty" /\ rules = <<2, 4>>
    /\ result[1].elems = <<>> /\ calls = <<>>

\* C5: size_hint returns (N, Some(N)) as long as next has not yielded the
\* element, and (N-1, Some(N-1)) once it has.
C5_SizeHint ==
    op = "size_hint" =>
        est = IF hint[1].item # <<>> THEN <<N, N>> ELSE <<N - 1, N - 1>>

C5_Witness ==
    /\ pc = "iter" /\ op = "size_hint" /\ N = 3
    /\ hint[1].item = <<>> /\ est = <<2, 2>>

\* C6: next moves the iterator from loaded to drained and returns the held
\* element; in drained it returns None and changes nothing; size_hint changes
\* nothing; loaded is never entered again.
C6_Step ==
    /\ hint[1].item = <<>> => hint' = hint
    /\ (op' = "next" /\ ncalls' # ncalls) =>
          /\ ret' = hint[1].item
          /\ hint'[1].item = <<>>
    /\ (op' = "size_hint" /\ ncalls' # ncalls) => hint' = hint /\ ret' = ret

C6_LoadedDrained == [][C6_Step]_vars

C6_Witness ==
    /\ pc = "iter" /\ op = "next" /\ ncalls >= 3
    /\ ret = <<>> /\ hint[1].item = <<>>

\* C7: for N >= 1 entries extend is called N times on the collection that
\* started as the default one: first with a SizeHintIter holding the first
\* entry and reporting N, then once per remaining entry, in source order,
\* with an iterator over that entry alone; the value is returned afterwards.
C7_ExtendCalls ==
    /\ Len(calls) <= N
    /\ \A i \in 1..Len(calls) :
         /\ calls[i].item = srcEntries[i]
         /\ calls[i].iter = IF i = 1 THEN "hint" ELSE "option"
         /\ calls[i].hintAt = IF i = 1 THEN N ELSE 1
    /\ pc = "first" => col.elems = <<>> /\ calls = <<>>
    /\ Len(result) = 1 => Len(calls) = N
    /\ Built => Len(calls) = N /\ Len(result) = 1

C7_Witness ==
    /\ pc = "done" /\ Len(calls) = 3 /\ N = 3
    /\ calls[1].iter = "hint" /\ calls[3].iter = "option"
    /\ calls[3].item = srcEntries[3]

LastIndex(k) ==
    CHOOSE i \in 1..N :
        /\ srcEntries[i][1] = k
        /\ \A j \in (i + 1)..N : srcEntries[j][1] # k

\* C8: each key => value pair is one (key, value) element of the sequence
\* path, and a map ends up mapping every key of the literal to the value of
\* the key's last occurrence.
C8_LastWriteWins ==
    (Built /\ kind = "map") =>
        LET m == result[1].elems
        IN /\ es = [i \in 1..N |-> Expr(srcEntries[i])]
           /\ Len(calls) = N
           /\ {m[i][1] : i \in 1..Len(m)} = {srcEntries[i][1] : i \in 1..N}
           /\ \A i, j \in 1..Len(m) : m[i][1] = m[j][1] => i = j
           /\ \A i \in 1..Len(m) : m[i][2] = srcEntries[LastIndex(m[i][1])][2]

C8_Witness ==
    /\ pc = "done" /\ kind = "map"
    /\ srcEntries = <<<<1, 1>>, <<2, 2>>, <<1, 2>>>>
    /\ {result[1].elems[i] : i \in 1..Len(result[1].elems)}
          = {<<1, 2>>, <<2, 2>>}

\* C9: NUM_ELEMS is the number of entries of the literal in every non-empty
\* form (a pair is one entry, trailing commas are none), so the hint of the
\* first extend call is the number of extend calls made.
C9_NumElems ==
    /\ (N >= 1 /\ pc \notin {"expand", "iter"}) => num = N
    /\ Built => calls[1].hintAt = Len(calls)

C9_Witness ==
    /\ pc = "done" /\ srcForm = <<"map", 1>> /\ N = 2
    /\ num = 2 /\ calls[1].hintAt = 2 /\ Len(calls) = 2

\* C10: count is at least 1 while the item is present, is N then and N - 1
\* afterwards, and changes only by the one decrement of the next that yields
\* the item: the subtraction never wraps.
C10_State ==
    /\ hint[1].item # <<>> => hint[1].count >= 1 /\ hint[1].count = N
    /\ hint[1].item = <<>> => hint[1].count = N - 1

C10_Step ==
    hint'[1].count # hint[1].count =>
        /\ hint[1].item # <<>>
        /\ hint'[1].item = <<>>
        /\ hint'[1].count = hint[1].count - 1

C10_NoUnderflow == [](C10_State) /\ [][C10_Step]_vars

C10_Witness ==
    /\ pc = "iter" /\ N = 1 /\ ncalls >= 2
    /\ hint[1].item = <<>> /\ hint[1].count = 0

====
